---- MODULE Spec2Model ----
(***************************************************************************)
(* A model of the finance platform's persistence-touching logic:           *)
(*   - the server actions on accounts and transactions                      *)
(*     (createAccount, updateDefaultAccount, createTransaction,             *)
(*      updateTransaction, bulkDeleteTransactions),                         *)
(*   - the recurring-transaction scheduler (discovery + processing step),   *)
(*   - the budget-alert job.                                                *)
(* The database is the record db; a handler's statements are staged one     *)
(* after another and persisted either through Transaction (db.$transaction: *)
(* all or nothing) or through Autocommit (plain awaits: every statement     *)
(* that completed stays).                                                   *)
(***************************************************************************)
EXTENDS Integers, Sequences, FiniteSets, TLC

VARIABLES
  db,        \* the relational store: accounts, transactions, budgets
  initial,   \* history: the balance each account was created with
  call,      \* the last completed handler call and its outcome
  now,       \* the clock, in whole days since 2025-01-01
  proc,      \* handler runs in progress (the overlapping specifications)
  queue,     \* work items "transaction.recurring.process" not yet consumed
  sent       \* history: the budget-alert e-mails sent, in order

vars == <<db, initial, call, now, proc, queue, sent>>

(***************************************************************************)
(* Bounds of the model.                                                    *)
(***************************************************************************)
MaxAccounts == 2
MaxTxs == 2
MaxAmount == 2
MaxCalls == 4

Users == {"u1", "u2"}
AccIds == 1..MaxAccounts
TxIds == 1..MaxTxs
Amounts == 1..MaxAmount
OpeningBalance == 10

Null == -1                  \* null for a date column
NoInterval == "NONE"        \* null / undefined recurringInterval
Intervals == {"DAILY", "WEEKLY", "MONTHLY", "YEARLY"}

(***************************************************************************)
(* Dates.  A date is a day number, day 0 being 2025-01-01; months are      *)
(* 0-based as in the JavaScript Date API.                                   *)
(***************************************************************************)
EpochYear == 2025

IsLeap(y) == (y % 4 = 0 /\ y % 100 # 0) \/ y % 400 = 0

DaysInYear(y) == IF IsLeap(y) THEN 366 ELSE 365

DaysInMonth(y, m) ==
  IF m = 1 THEN (IF IsLeap(y) THEN 29 ELSE 28)
  ELSE IF m \in {3, 5, 8, 10} THEN 30 ELSE 31

RECURSIVE DaysBeforeYear(_)
DaysBeforeYear(y) ==
  IF y <= EpochYear THEN 0 ELSE DaysBeforeYear(y - 1) + DaysInYear(y - 1)

RECURSIVE DaysBeforeMonth(_, _)
DaysBeforeMonth(y, m) ==
  IF m = 0 THEN 0 ELSE DaysBeforeMonth(y, m - 1) + DaysInMonth(y, m - 1)

RECURSIVE YearFrom(_, _)
YearFrom(y, d) == IF d < DaysInYear(y) THEN y ELSE YearFrom(y + 1, d - DaysInYear(y))

\* Date.prototype.getFullYear
GetFullYear(d) == YearFrom(EpochYear, d)

RECURSIVE MonthFrom(_, _, _)
MonthFrom(y, m, d) ==
  IF d < DaysInMonth(y, m) THEN m ELSE MonthFrom(y, m + 1, d - DaysInMonth(y, m))

\* Date.prototype.getMonth
GetMonth(d) == MonthFrom(GetFullYear(d), 0, d - DaysBeforeYear(GetFullYear(d)))

\* Date.prototype.getDate
GetDate(d) ==
  d - DaysBeforeYear(GetFullYear(d)) - DaysBeforeMonth(GetFullYear(d), GetMonth(d)) + 1

\* new Date(year, month, day): month and day beyond their range roll over
MakeDate(y, m, day) ==
  DaysBeforeYear(y + (m \div 12)) + DaysBeforeMonth(y + (m \div 12), m % 12) + day - 1

\* calculateNextRecurringDate of the scheduler (lib/inngest/function.js).
\* An interval outside the four cases falls through the switch: the date is returned as is.
calculateNextRecurringDate(date, interval) ==
  CASE interval = "DAILY"   -> date + 1
    [] interval = "WEEKLY"  -> date + 7
    [] interval = "MONTHLY" -> MakeDate(GetFullYear(date), GetMonth(date) + 1, GetDate(date))
    [] interval = "YEARLY"  -> MakeDate(GetFullYear(date) + 1, GetMonth(date), GetDate(date))
    [] OTHER                -> date

\* calculateNextRecurringDate of the transaction actions.
calculateNextRecurringDateOfActions(startDate, interval) ==
  CASE interval = "DAILY"   -> startDate + 1
    [] interval = "WEEKLY"  -> startDate + 7
    [] interval = "MONTHLY" ->
         MakeDate(GetFullYear(startDate), GetMonth(startDate) + 1, GetDate(startDate))
    [] interval = "YEARLY"  ->
         MakeDate(GetFullYear(startDate) + 1, GetMonth(startDate), GetDate(startDate))
    [] OTHER                -> startDate

\* new Date(null) is 1970-01-01, before every date of the model
DateOf(column) == IF column = Null THEN -20000 ELSE column

\* the due check with its comparison the wrong way round
isTransactionDueFlipped(t, today) ==
  IF t.lastProcessed = Null THEN TRUE ELSE DateOf(t.nextRecurringDate) >= today

\* isTransactionDue(transaction), evaluated at the instant today
isTransactionDue(t, today) ==
  IF t.lastProcessed = Null THEN TRUE ELSE DateOf(t.nextRecurringDate) <= today

isNewMonth(lastAlertDate, currentDate) ==
  \/ GetMonth(lastAlertDate) # GetMonth(currentDate)
  \/ GetFullYear(lastAlertDate) # GetFullYear(currentDate)

(***************************************************************************)
(* JavaScript values of the reduce in bulkDeleteTransactions.  A stored     *)
(* amount is a Decimal object: unary minus converts it to a number, binary  *)
(* + takes its valueOf(), which is a string, and concatenates.              *)
(*   k = "num": the number v                                                *)
(*   k = "str": a string that reads as the decimal number v                 *)
(*   k = "bad": a string that is not a decimal number                       *)
(***************************************************************************)
JsNum(n) == [k |-> "num", v |-> n]
JsStr(n) == [k |-> "str", v |-> n]
JsBad == [k |-> "bad", v |-> 0]

RECURSIVE Digits(_)
Digits(n) == IF n < 10 THEN 1 ELSE 1 + Digits(n \div 10)

RECURSIVE Pow10(_)
Pow10(e) == IF e = 0 THEN 1 ELSE 10 * Pow10(e - 1)

\* the text of a followed by the digits of the positive integer n
AppendDigits(a, n) ==
  IF a >= 0 THEN a * Pow10(Digits(n)) + n ELSE -((-a) * Pow10(Digits(n)) + n)

\* (acc[accountId] || 0) + change, for one transaction t of the reduce
JsPlusChange(acc, t) ==
  IF t.type = "EXPENSE"
  THEN \* change is the Decimal t.amount: string concatenation
       CASE acc.k = "bad" -> JsBad
         [] OTHER         -> JsStr(AppendDigits(acc.v, t.amount))
  ELSE \* change is the number -t.amount
       CASE acc.k = "num" -> JsNum(acc.v - t.amount)
         [] OTHER         -> JsBad

\* accountBalanceChanges: the reduce over the found transactions, in the order found
RECURSIVE accountBalanceChanges(_, _, _)
accountBalanceChanges(txs, order, acc) ==
  IF order = <<>> THEN acc
  ELSE LET t == txs[Head(order)]
           old == IF t.accountId \in DOMAIN acc THEN acc[t.accountId] ELSE JsNum(0)
           new == JsPlusChange(old, t)
       IN accountBalanceChanges(txs, Tail(order),
            [a \in DOMAIN acc \cup {t.accountId} |->
               IF a = t.accountId THEN new ELSE acc[a]])

EmptyMap == [x \in {} |-> 0]

(***************************************************************************)
(* The store.  db.accounts is the Account table in creation order (an       *)
(* account id is its position; accounts are never deleted), db.txs the      *)
(* Transaction table keyed by id, db.txSeq the number of ids handed out,    *)
(* db.budgets the Budget table keyed by user (one budget per user).         *)
(* A stage is the store after a statement, or an error once one threw.      *)
(* A transaction row's origin is 0 when a user entered it; the copy made by *)
(* the scheduler (description "<original> (Recurring)") has the id of the   *)
(* recurring transaction it was made from.                                  *)
(***************************************************************************)
EmptyDb ==
  [accounts |-> <<>>, txs |-> EmptyMap, txSeq |-> 0, budgets |-> EmptyMap, users |-> <<>>]

Ok(d) == [d |-> d, err |-> FALSE]

Thrown(s) == [s EXCEPT !.err = TRUE]

AccountExists(d, id) == id \in DOMAIN d.accounts

\* db.account.findUnique({ where: { id, userId } }) finds a row
AccountOwned(d, id, userId) == AccountExists(d, id) /\ d.accounts[id].userId = userId

\* db.transaction.findUnique({ where: { id, userId } }) finds a row
\* the lookup by id alone, whoever the owner
TxOwnedByAnyone(d, id, userId) == id \in DOMAIN d.txs

TxOwned(d, id, userId) == id \in DOMAIN d.txs /\ d.txs[id].userId = userId

\* tx.transaction.create({ data: row }); the account reference is a foreign key
TxCreate(s, row) ==
  IF s.err \/ ~AccountExists(s.d, row.accountId) THEN Thrown(s)
  ELSE [s EXCEPT !.d.txSeq = @ + 1,
                 !.d.txs = [i \in DOMAIN @ \cup {s.d.txSeq + 1} |->
                              IF i = s.d.txSeq + 1 THEN row ELSE @[i]]]

\* tx.transaction.update({ where: { id, userId }, data }): a record that is not
\* found, or a new account reference that does not exist, throws
TxUpdate(s, id, userId, row) ==
  IF s.err \/ ~TxOwned(s.d, id, userId) \/ ~AccountExists(s.d, row.accountId)
  THEN Thrown(s)
  ELSE [s EXCEPT !.d.txs[id] = row]

\* tx.transaction.deleteMany({ where: { id: { in: ids }, userId } })
TxDeleteMany(s, ids, userId) ==
  IF s.err THEN s
  ELSE [s EXCEPT !.d.txs = [i \in {j \in DOMAIN @ : ~(j \in ids /\ @[j].userId = userId)}
                              |-> @[i]]]

\* tx.account.update({ where: { id }, data: { balance } })
AccountSetBalance(s, id, balance) ==
  IF s.err \/ ~AccountExists(s.d, id) THEN Thrown(s)
  ELSE [s EXCEPT !.d.accounts[id].balance = balance]

AccountIncrementAsSet(s, id, by) ==
  IF s.err \/ ~AccountExists(s.d, id) \/ by.k = "bad" THEN Thrown(s)
  ELSE [s EXCEPT !.d.accounts[id].balance = by.v]

\* tx.account.update({ where: { id }, data: { balance: { increment } } }) with a
\* JavaScript value: a number or a decimal string is accepted, anything else throws
AccountIncrement(s, id, by) ==
  IF s.err \/ ~AccountExists(s.d, id) \/ by.k = "bad" THEN Thrown(s)
  ELSE [s EXCEPT !.d.accounts[id].balance = @ + by.v]

\* db.account.updateMany({ where: { userId, isDefault: true }, data: { isDefault: false } })
AccountClearDefault(s, userId) ==
  IF s.err THEN s
  ELSE [s EXCEPT !.d.accounts =
          [i \in DOMAIN @ |->
             IF @[i].userId = userId /\ @[i].isDefault
             THEN [@[i] EXCEPT !.isDefault = FALSE] ELSE @[i]]]

\* db.account.update({ where: { id, userId }, data: { isDefault: true } })
AccountSetDefault(s, id, userId) ==
  IF s.err \/ ~AccountOwned(s.d, id, userId) THEN Thrown(s)
  ELSE [s EXCEPT !.d.accounts[id].isDefault = TRUE]

\* db.account.create({ data })
AccountCreate(s, row) ==
  IF s.err THEN s ELSE [s EXCEPT !.d.accounts = Append(@, row)]

(***************************************************************************)
(* Persisting the statements of a handler.  stages[i] is the store after    *)
(* statement i; failAt names a statement on which the database fails (0:    *)
(* none).  Both operators give the number of statements that are persisted. *)
(***************************************************************************)
FirstFailure(stages, failAt) ==
  LET bad == {i \in 1..Len(stages) : i = failAt \/ stages[i].err}
  IN IF bad = {} THEN 0 ELSE CHOOSE i \in bad : \A j \in bad : i <= j

\* plain awaits: what ran before the first failure stays
Autocommit(stages, failAt) ==
  IF FirstFailure(stages, failAt) = 0 THEN Len(stages)
  ELSE FirstFailure(stages, failAt) - 1

\* a transaction block that keeps what ran before the failure
TransactionWithoutRollback(stages, failAt) == Autocommit(stages, failAt)

\* db.$transaction(async (tx) => { ... }): all statements or none
Transaction(stages, failAt) ==
  IF FirstFailure(stages, failAt) = 0 THEN Len(stages) ELSE 0

Persisted(pre, stages, k) == IF k = 0 THEN pre ELSE stages[k].d

(***************************************************************************)
(* The server actions, each as one call that runs to completion.            *)
(* u is the authenticated caller (a user with a User row).                  *)
(***************************************************************************)
Signed(type, amount) == IF type = "EXPENSE" THEN -amount ELSE amount

Returned(op, u, target, k, n, error) ==
  [n |-> call.n + 1, op |-> op, user |-> u, target |-> target,
   ok |-> error = "", error |-> error, applied |-> k, of |-> n]

NoCall ==
  [n |-> 0, op |-> "none", user |-> "none", target |-> 0,
   ok |-> TRUE, error |-> "", applied |-> 0, of |-> 0]

AccountsOf(d, u) == {i \in DOMAIN d.accounts : d.accounts[i].userId = u}

\* createAccount(data): data.balance is the opening balance, data.isDefault the switch
createAccount(u, data, failAt) ==
  LET existingAccounts == AccountsOf(db, u)
      shouldBeDefault == IF existingAccounts = {} THEN TRUE ELSE data.isDefault
      row == [userId |-> u, balance |-> data.balance, isDefault |-> shouldBeDefault]
      cleared == AccountClearDefault(Ok(db), u)
      stages == IF shouldBeDefault
                THEN <<cleared, AccountCreate(cleared, row)>>
                ELSE <<AccountCreate(Ok(db), row)>>
      k == Autocommit(stages, failAt)
  IN /\ Len(db.accounts) < MaxAccounts
     /\ db' = Persisted(db, stages, k)
     /\ initial' = IF k = Len(stages) THEN Append(initial, data.balance) ELSE initial
     /\ call' = Returned("createAccount", u, 0, k, Len(stages),
                         IF k = Len(stages) THEN "" ELSE "database error")
     /\ UNCHANGED <<now, proc, queue, sent>>

\* updateDefaultAccount(accountId)
updateDefaultAccount(u, accountId, failAt) ==
  LET cleared == AccountClearDefault(Ok(db), u)
      stages == <<cleared, AccountSetDefault(cleared, accountId, u)>>
      k == Autocommit(stages, failAt)
  IN /\ db' = Persisted(db, stages, k)
     /\ call' = Returned("updateDefaultAccount", u, accountId, k, Len(stages),
                         IF k = Len(stages) THEN "" ELSE "database error")
     /\ UNCHANGED <<initial, now, proc, queue, sent>>

\* the row written for the form data of createTransaction / updateTransaction
nextRecurringDateFor(data) ==
  IF data.isRecurring /\ data.recurringInterval # NoInterval
  THEN calculateNextRecurringDateOfActions(data.date, data.recurringInterval)
  ELSE Null

\* createTransaction(data)
createTransaction(u, data, failAt) ==
  IF ~AccountOwned(db, data.accountId, u)
  THEN /\ failAt = 0
       /\ call' = Returned("createTransaction", u, 0, 0, 0, "Account not found")
       /\ UNCHANGED <<db, initial, now, proc, queue, sent>>
  ELSE
    LET account == db.accounts[data.accountId]
        balanceChange == Signed(data.type, data.amount)
        newBalance == account.balance + balanceChange
        row == [type |-> data.type, amount |-> data.amount, accountId |-> data.accountId,
                userId |-> u, date |-> data.date, category |-> data.category,
                isRecurring |-> data.isRecurring,
                recurringInterval |-> data.recurringInterval,
                nextRecurringDate |-> nextRecurringDateFor(data),
                lastProcessed |-> Null, origin |-> 0]
        created == TxCreate(Ok(db), row)
        stages == <<created, AccountSetBalance(created, data.accountId, newBalance)>>
        k == Transaction(stages, failAt)
    IN /\ db.txSeq < MaxTxs
       /\ db' = Persisted(db, stages, k)
       /\ call' = Returned("createTransaction", u, db.txSeq + 1, k, Len(stages),
                           IF k = Len(stages) THEN "" ELSE "database error")
       /\ UNCHANGED <<initial, now, proc, queue, sent>>

\* updateTransaction(id, data)
updateTransaction(u, id, data, failAt) ==
  IF ~TxOwned(db, id, u)
  THEN /\ failAt = 0
       /\ call' = Returned("updateTransaction", u, id, 0, 0, "Transaction not found")
       /\ UNCHANGED <<db, initial, now, proc, queue, sent>>
  ELSE
    LET originalTransaction == db.txs[id]
        oldBalanceChange == Signed(originalTransaction.type, originalTransaction.amount)
        newBalanceChange == Signed(data.type, data.amount)
        netBalanceChange == newBalanceChange - oldBalanceChange
        \* a field that is undefined in data is left as it is
        row == [originalTransaction EXCEPT
                  !.type = data.type, !.amount = data.amount,
                  !.accountId = data.accountId, !.date = data.date,
                  !.category = data.category,
                  !.isRecurring = data.isRecurring,
                  !.recurringInterval =
                     IF data.recurringInterval = NoInterval THEN @
                     ELSE data.recurringInterval,
                  !.nextRecurringDate = nextRecurringDateFor(data)]
        updated == TxUpdate(Ok(db), id, u, row)
        stages == <<updated,
                    AccountIncrement(updated, data.accountId, JsNum(netBalanceChange))>>
        k == Transaction(stages, failAt)
    IN /\ db' = Persisted(db, stages, k)
       /\ call' = Returned("updateTransaction", u, id, k, Len(stages),
                           IF k = Len(stages) THEN "" ELSE "database error")
       /\ UNCHANGED <<initial, now, proc, queue, sent>>

\* the sequences that list the elements of S once each
Orders(S) ==
  {q \in [1..Cardinality(S) -> S] : \A i, j \in 1..Cardinality(S) : q[i] = q[j] => i = j}

\* the balance updates of bulkDeleteTransactions, one stage per account of changes
RECURSIVE BalanceStages(_, _, _)
BalanceStages(s, changes, todo) ==
  IF todo = {} THEN <<>>
  ELSE LET a == CHOOSE x \in todo : \A y \in todo : x <= y
           next == AccountIncrement(s, a, changes[a])
       IN <<next>> \o BalanceStages(next, changes, todo \ {a})

\* bulkDeleteTransactions(transactionIds); order is the order in which findMany
\* returned the caller's transactions among transactionIds
bulkDeleteTransactions(u, transactionIds, order, failAt) ==
  LET changes == accountBalanceChanges(db.txs, order, EmptyMap)
      deleted == TxDeleteMany(Ok(db), transactionIds, u)
      stages == <<deleted>> \o BalanceStages(deleted, changes, DOMAIN changes)
      k == Transaction(stages, failAt)
  IN /\ order \in Orders({i \in transactionIds : TxOwned(db, i, u)})
     /\ db' = Persisted(db, stages, k)
     /\ call' = Returned("bulkDeleteTransactions", u, 0, k, Len(stages),
                         IF k = Len(stages) THEN "" ELSE "database error")
     /\ UNCHANGED <<initial, now, proc, queue, sent>>

(***************************************************************************)
(* Spec: the server actions called one after another, by either user, with  *)
(* any input of the bounded sets and any single database failure.           *)
(***************************************************************************)
AccountData == [balance : {OpeningBalance}, isDefault : BOOLEAN]

\* form data of a one-off transaction dated today
PlainData ==
  [type : {"INCOME", "EXPENSE"}, amount : Amounts, accountId : AccIds,
   date : {now}, category : {"food"}, isRecurring : {FALSE},
   recurringInterval : {NoInterval}]

Init ==
  /\ db = EmptyDb
  /\ initial = <<>>
  /\ call = NoCall
  /\ now = 0
  /\ proc = EmptyMap
  /\ queue = <<>>
  /\ sent = <<>>

CreateAccount ==
  /\ call.n < MaxCalls
  /\ \E u \in Users, data \in AccountData, failAt \in 0..2 : createAccount(u, data, failAt)

UpdateDefaultAccount ==
  /\ call.n < MaxCalls
  /\ \E u \in Users, accountId \in AccIds, failAt \in 0..2 :
       updateDefaultAccount(u, accountId, failAt)

CreateTransaction ==
  /\ call.n < MaxCalls
  /\ \E u \in Users, data \in PlainData, failAt \in 0..2 : createTransaction(u, data, failAt)

UpdateTransaction ==
  /\ call.n < MaxCalls
  /\ \E u \in Users, id \in TxIds, data \in PlainData, failAt \in 0..2 :
       updateTransaction(u, id, data, failAt)

BulkDeleteTransactions ==
  /\ call.n < MaxCalls
  /\ \E u \in Users, transactionIds \in SUBSET TxIds, failAt \in 0..3 :
       \E order \in Orders({i \in transactionIds : TxOwned(db, i, u)}) :
         bulkDeleteTransactions(u, transactionIds, order, failAt)

Next ==
  \/ CreateAccount
  \/ UpdateDefaultAccount
  \/ CreateTransaction
  \/ UpdateTransaction
  \/ BulkDeleteTransactions

Spec == Init /\ [][Next]_vars

(***************************************************************************)
(* Properties of the server actions (checked under Spec).                   *)
(***************************************************************************)
LedgerOps == {"createTransaction", "updateTransaction", "bulkDeleteTransactions"}

RECURSIVE SumSigned(_, _)
SumSigned(txs, ids) ==
  IF ids = {} THEN 0
  ELSE LET i == CHOOSE x \in ids : TRUE
       IN Signed(txs[i].type, txs[i].amount) + SumSigned(txs, ids \ {i})

TxsOn(d, a) == {i \in DOMAIN d.txs : d.txs[i].accountId = a}

Ledger(d, a) == SumSigned(d.txs, TxsOn(d, a))

DefaultsOf(d, u) == {i \in AccountsOf(d, u) : d.accounts[i].isDefault}

\* C1: after every call, each account's balance is its opening balance plus the
\* signed amounts (+ INCOME, - EXPENSE) of the transactions now stored for it.
BalanceEqualsLedger ==
  \A a \in DOMAIN db.accounts : db.accounts[a].balance = initial[a] + Ledger(db, a)

\* C2: an update that moves a transaction from account A to another account B takes
\* the old signed amount off A and puts the new signed amount on B.
MoveReconcilesBothAccounts ==
  [][\A id \in DOMAIN db.txs \cap DOMAIN db'.txs :
       db.txs[id].accountId # db'.txs[id].accountId =>
         /\ db'.accounts[db.txs[id].accountId].balance =
              db.accounts[db.txs[id].accountId].balance
                - Signed(db.txs[id].type, db.txs[id].amount)
         /\ db'.accounts[db'.txs[id].accountId].balance =
              db.accounts[db'.txs[id].accountId].balance
                + Signed(db'.txs[id].type, db'.txs[id].amount)]_vars

\* C5: after every createAccount / updateDefaultAccount call, failed or not, a user
\* with an account has exactly one default account (so the first account created is
\* the default whatever was requested).
ExactlyOneDefault ==
  \A u \in Users : AccountsOf(db, u) # {} => Cardinality(DefaultsOf(db, u)) = 1

\* C7: in the three ledger actions the row statement and the balance statements are
\* persisted together or not at all, and a call that failed left the store untouched.
LedgerCallIsAtomic ==
  [][(call'.n # call.n /\ call'.op \in LedgerOps) =>
       /\ call'.applied \in {0, call'.of}
       /\ (call'.ok => call'.applied = call'.of)
       /\ (~call'.ok => db' = db)]_vars

\* C7 witness: a ledger call whose transaction block had its statements staged and
\* then failed.
LedgerCallFailedMidway ==
  /\ call.op \in LedgerOps
  /\ ~call.ok
  /\ call.of >= 2

\* C9: a ledger action called by one user changes neither the balance of, nor the
\* transactions on, an account that belongs to another user.
RowsOn(d, a) == {<<i, d.txs[i]>> : i \in TxsOn(d, a)}

NoCrossUserEffect ==
  [][(call'.n # call.n /\ call'.op \in LedgerOps) =>
       \A a \in DOMAIN db.accounts :
         db.accounts[a].userId # call'.user =>
           /\ db'.accounts[a].balance = db.accounts[a].balance
           /\ RowsOn(db', a) = RowsOn(db, a)]_vars

\* C10: updateDefaultAccount with an accountId the caller does not own returns an
\* error and leaves every isDefault flag of the caller as it was.
ForeignDefaultIsRejectedUntouched ==
  [][(/\ call'.n # call.n
      /\ call'.op = "updateDefaultAccount"
      /\ ~AccountOwned(db, call'.target, call'.user)) =>
       /\ ~call'.ok
       /\ \A i \in AccountsOf(db, call'.user) :
            db'.accounts[i].isDefault = db.accounts[i].isDefault]_vars

\* C18: a successful updateTransaction that keeps the transaction on its account
\* changes that account's balance by exactly the new signed amount minus the old
\* signed amount, whatever the old and new type and amount, and changes no other
\* balance.
SameAccountUpdateAppliesNetChange ==
  [][(/\ call'.n # call.n
      /\ call'.op = "updateTransaction"
      /\ call'.ok
      /\ db'.txs[call'.target].accountId = db.txs[call'.target].accountId) =>
       LET old == db.txs[call'.target]
           new == db'.txs[call'.target]
       IN \A a \in DOMAIN db.accounts :
            db'.accounts[a].balance =
              IF a = old.accountId
              THEN db.accounts[a].balance
                     + Signed(new.type, new.amount) - Signed(old.type, old.amount)
              ELSE db.accounts[a].balance]_vars

\* C18 witness: an updateTransaction has succeeded and left an INCOME row on an account
\* whose balance stands above its opening balance by that row's amount.
UpdatedToIncomeOnAccount ==
  /\ call.op = "updateTransaction"
  /\ call.ok
  /\ db.txs[call.target].type = "INCOME"
  /\ TxsOn(db, db.txs[call.target].accountId) = {call.target}
  /\ db.accounts[db.txs[call.target].accountId].balance =
       initial[db.txs[call.target].accountId] + db.txs[call.target].amount

\* C19: a successful bulkDeleteTransactions deletes only transactions of the caller
\* and changes each account's balance by exactly the reversal of the transactions it
\* deleted there (+amount for each EXPENSE, -amount for each INCOME); an account with
\* no deleted transaction keeps its balance.
BulkDeleteReversesExactly ==
  [][(call'.n # call.n /\ call'.op = "bulkDeleteTransactions" /\ call'.ok) =>
       LET deleted == DOMAIN db.txs \ DOMAIN db'.txs
       IN /\ \A i \in deleted : db.txs[i].userId = call'.user
          /\ \A i \in DOMAIN db'.txs : db'.txs[i] = db.txs[i]
          /\ \A a \in DOMAIN db.accounts :
               db'.accounts[a].balance =
                 db.accounts[a].balance
                   - SumSigned(db.txs, {i \in deleted : db.txs[i].accountId = a})]_vars

(***************************************************************************)
(* SpecDefault: createAccount and updateDefaultAccount as the separate      *)
(* awaited statements they are, so that the calls of several requests       *)
(* overlap.  A request runs one call, from "idle" to "done".                *)
(***************************************************************************)
MaxRequests == 3

Requests == 1..MaxRequests

IdleRequest ==
  [pc |-> "idle", op |-> "none", user |-> "none", accountId |-> 0, isDefault |-> FALSE]

Creating == {r \in Requests : proc[r].op = "createAccount" /\ proc[r].pc # "done"}

\* createAccount up to and including db.account.findMany: shouldBeDefault is decided
BeginCreateAccount(r, u, data) ==
  LET existingAccounts == AccountsOf(db, u)
      shouldBeDefault == IF existingAccounts = {} THEN TRUE ELSE data.isDefault
  IN /\ proc[r].pc = "idle"
     /\ Len(db.accounts) + Cardinality(Creating) < MaxAccounts
     /\ proc' = [proc EXCEPT ![r] =
                   [pc |-> IF shouldBeDefault THEN "clear" ELSE "create",
                    op |-> "createAccount", user |-> u, accountId |-> 0,
                    isDefault |-> shouldBeDefault]]
     /\ UNCHANGED <<db, initial, call, now, queue, sent>>

\* updateDefaultAccount up to the first write
BeginUpdateDefault(r, u, accountId) ==
  /\ proc[r].pc = "idle"
  /\ proc' = [proc EXCEPT ![r] =
                [pc |-> "clear", op |-> "updateDefaultAccount", user |-> u,
                 accountId |-> accountId, isDefault |-> TRUE]]
  /\ UNCHANGED <<db, initial, call, now, queue, sent>>

\* await db.account.updateMany(...) of either action
ClearDefault(r) ==
  /\ proc[r].pc = "clear"
  /\ db' = AccountClearDefault(Ok(db), proc[r].user).d
  /\ proc' = [proc EXCEPT ![r].pc =
                IF proc[r].op = "createAccount" THEN "create" ELSE "set"]
  /\ UNCHANGED <<initial, call, now, queue, sent>>

\* await db.account.create(...) of createAccount
InsertAccount(r) ==
  /\ proc[r].pc = "create"
  /\ db' = AccountCreate(Ok(db), [userId |-> proc[r].user, balance |-> OpeningBalance,
                                  isDefault |-> proc[r].isDefault]).d
  /\ initial' = Append(initial, OpeningBalance)
  /\ proc' = [proc EXCEPT ![r].pc = "done"]
  /\ UNCHANGED <<call, now, queue, sent>>

\* await db.account.update(...) of updateDefaultAccount; a record that is not found
\* throws and the call returns the error
SetDefault(r) ==
  LET set == AccountSetDefault(Ok(db), proc[r].accountId, proc[r].user)
  IN /\ proc[r].pc = "set"
     /\ db' = IF set.err THEN db ELSE set.d
     /\ proc' = [proc EXCEPT ![r].pc = "done"]
     /\ UNCHANGED <<initial, call, now, queue, sent>>

InitDefault ==
  /\ db = EmptyDb
  /\ initial = <<>>
  /\ call = NoCall
  /\ now = 0
  /\ proc = [r \in Requests |-> IdleRequest]
  /\ queue = <<>>
  /\ sent = <<>>

NextDefault ==
  \E r \in Requests :
    \/ \E u \in Users, data \in AccountData : BeginCreateAccount(r, u, data)
    \/ \E u \in Users, accountId \in AccIds : BeginUpdateDefault(r, u, accountId)
    \/ ClearDefault(r)
    \/ InsertAccount(r)
    \/ SetDefault(r)

SpecDefault == InitDefault /\ [][NextDefault]_vars

\* C6: whatever the overlap of default-account switches, every state of the store
\* (what a reader sees, and what is left at the end) has exactly one default account
\* for each user that has an account.
ReaderSeesOneDefault ==
  \A u \in Users : AccountsOf(db, u) # {} => Cardinality(DefaultsOf(db, u)) = 1



(***************************************************************************)
(* SpecRecurring: the recurring-transaction scheduler.  Discovery puts one   *)
(* work item per due transaction on the queue; a worker takes a work item    *)
(* and runs the step "process-transaction", which is a read (findUnique and  *)
(* the due check) followed, after an await, by the transaction block.       *)
(***************************************************************************)
MaxQueue == 2
MaxDay == 2
MaxOriginals == 1
MaxRows == 3

\* two workers, so that two processing steps can overlap
Workers == {"w1", "w2"}

\* no identity: auth() without a session, an event without userId
NoUser == "none"

NoEvent == [transactionId |-> 0, userId |-> "none"]

NoRow ==
  [type |-> "none", amount |-> 0, accountId |-> 0, userId |-> "none", date |-> Null,
   category |-> "none", isRecurring |-> FALSE, recurringInterval |-> NoInterval, nextRecurringDate |-> Null,
   lastProcessed |-> Null, origin |-> 0]

IdleWorker == [pc |-> "idle", event |-> NoEvent, transaction |-> NoRow, outcome |-> "none"]

\* the discovery query without its isRecurring condition
DueRowsRecurringOrNot(d, today) ==
  {i \in DOMAIN d.txs :
     \/ d.txs[i].lastProcessed = Null
     \/ (d.txs[i].nextRecurringDate # Null /\ d.txs[i].nextRecurringDate <= today)}

DueRowsWhateverTheDate(d, today) == {i \in DOMAIN d.txs : d.txs[i].isRecurring}

\* the rows selected by the query of triggerRecurringTransactions at the instant today;
\* a null nextRecurringDate does not satisfy lte.  Every row has status COMPLETED:
\* no handler sets another status.
DueRows(d, today) ==
  {i \in DOMAIN d.txs :
     /\ d.txs[i].isRecurring
     /\ \/ d.txs[i].lastProcessed = Null
        \/ (d.txs[i].nextRecurringDate # Null /\ d.txs[i].nextRecurringDate <= today)}

RECURSIVE EventsFor(_, _)
EventsFor(d, ids) ==
  IF ids = {} THEN <<>>
  ELSE LET i == CHOOSE x \in ids : \A y \in ids : x <= y
       IN <<[transactionId |-> i, userId |-> d.txs[i].userId]>> \o EventsFor(d, ids \ {i})

\* triggerRecurringTransactions: one run of the discovery function
triggerRecurringTransactions ==
  LET recurringTransactions == DueRows(db, now)
  IN /\ Len(queue) + Cardinality(recurringTransactions) <= MaxQueue
     /\ queue' = queue \o EventsFor(db, recurringTransactions)
     /\ UNCHANGED <<db, initial, call, now, proc, sent>>

\* a worker is handed a work item; an event without transactionId or userId ends the
\* run at once with { error: "Missing required event data" }
TakeWorkItem(w) ==
  \E i \in 1..Len(queue) :
    /\ proc[w].pc = "idle"
    /\ proc' = [proc EXCEPT ![w] =
                  IF queue[i].transactionId = 0 \/ queue[i].userId = NoUser
                  THEN [pc |-> "idle", event |-> queue[i], transaction |-> NoRow,
                        outcome |-> "invalid"]
                  ELSE [pc |-> "find", event |-> queue[i], transaction |-> NoRow,
                        outcome |-> "none"]]
    /\ queue' = SubSeq(queue, 1, i - 1) \o SubSeq(queue, i + 1, Len(queue))
    /\ UNCHANGED <<db, initial, call, now, sent>>

\* process-transaction, first half: findUnique and "not found or not due: skip"
FindTransaction(w) ==
  LET event == proc[w].event
      found == TxOwned(db, event.transactionId, event.userId)
  IN /\ proc[w].pc = "find"
     /\ IF found /\ isTransactionDue(db.txs[event.transactionId], now)
        THEN proc' = [proc EXCEPT ![w].pc = "charge",
                                  ![w].transaction = db.txs[event.transactionId]]
        ELSE proc' = [proc EXCEPT ![w].pc = "idle", ![w].outcome = "skipped"]
     /\ UNCHANGED <<db, initial, call, now, queue, sent>>

\* the stamping update with nextRecurringDate left out of its data
TxStampLastProcessedOnly(s, id, lastProcessed, nextRecurringDate) ==
  IF s.err \/ id \notin DOMAIN s.d.txs THEN Thrown(s)
  ELSE [s EXCEPT !.d.txs[id].lastProcessed = lastProcessed]

\* tx.transaction.update({ where: { id }, data: { lastProcessed, nextRecurringDate } })
TxStamp(s, id, lastProcessed, nextRecurringDate) ==
  IF s.err \/ id \notin DOMAIN s.d.txs THEN Thrown(s)
  ELSE [s EXCEPT !.d.txs[id].lastProcessed = lastProcessed,
                 !.d.txs[id].nextRecurringDate = nextRecurringDate]

\* process-transaction, second half: the transaction block, on the row read before.
\* failAt names the statement of the block that throws (0: none).  A block that throws
\* fails the step, and the step is run again from its start.
ChargeTransaction(w, failAt) ==
  LET transaction == proc[w].transaction
      id == proc[w].event.transactionId
      copy == [type |-> transaction.type, amount |-> transaction.amount,
               accountId |-> transaction.accountId, userId |-> transaction.userId,
               date |-> now, category |-> transaction.category,
               isRecurring |-> FALSE, recurringInterval |-> NoInterval,
               nextRecurringDate |-> Null, lastProcessed |-> Null, origin |-> id]
      balanceChange == Signed(transaction.type, transaction.amount)
      created == TxCreate(Ok(db), copy)
      charged == AccountIncrement(created, transaction.accountId, JsNum(balanceChange))
      stamped == TxStamp(charged, id, now,
                         calculateNextRecurringDate(now, transaction.recurringInterval))
      stages == <<created, charged, stamped>>
      k == Transaction(stages, failAt)
  IN /\ proc[w].pc = "charge"
     /\ db.txSeq < MaxRows
     /\ db' = Persisted(db, stages, k)
     /\ proc' = IF k = Len(stages)
                THEN [proc EXCEPT ![w].pc = "idle", ![w].outcome = "charged"]
                ELSE [proc EXCEPT ![w].pc = "find", ![w].transaction = NoRow,
                                  ![w].outcome = "threw"]
     /\ UNCHANGED <<initial, call, now, queue, sent>>

\* the clock moves on by days, up to lastDay
Tick(days, lastDay) ==
  /\ now + days <= lastDay
  /\ now' = now + days
  /\ UNCHANGED <<db, initial, call, proc, queue, sent>>

\* form data of a recurring transaction dated today
RecurringData ==
  [type : {"INCOME", "EXPENSE"}, amount : {1}, accountId : {1},
   date : {now}, category : {"rent"}, isRecurring : {TRUE},
   recurringInterval : {"DAILY", "WEEKLY"}]

InitRecurring ==
  /\ db = EmptyDb
  /\ initial = <<>>
  /\ call = NoCall
  /\ now = 0
  /\ proc = [w \in Workers |-> IdleWorker]
  /\ queue = <<>>
  /\ sent = <<>>

OpenAccount ==
  /\ db.accounts = <<>>
  /\ createAccount("u1", [balance |-> OpeningBalance, isDefault |-> TRUE], 0)

EnterRecurring ==
  /\ db.accounts # <<>>
  /\ db.txSeq < MaxOriginals
  /\ \E data \in RecurringData : createTransaction("u1", data, 0)

Discover == triggerRecurringTransactions

NextRecurring ==
  \/ OpenAccount
  \/ EnterRecurring
  \/ Discover
  \/ \E w \in Workers : TakeWorkItem(w)
  \/ \E w \in Workers : FindTransaction(w)
  \/ \E w \in Workers : ChargeTransaction(w, 0)
  \/ Tick(1, MaxDay)

SpecRecurring == InitRecurring /\ [][NextRecurring]_vars

CopiesOf(d, id, day) == {i \in DOMAIN d.txs : d.txs[i].origin = id /\ d.txs[i].date = day}

BalanceMatchesRows ==
  \A a \in DOMAIN db.accounts : db.accounts[a].balance = initial[a] + Ledger(db, a)

\* C3: however many work items name a due recurring transaction, and however their
\* processing steps overlap, it is charged once for the due period: no two
\* "(Recurring)" copies of one transaction carry the same date (every interval is a
\* day or longer), and the balance reflects each copy once.
ChargedOncePerPeriod ==
  /\ \A id \in DOMAIN db.txs : \A day \in 0..MaxDay :
       Cardinality(CopiesOf(db, id, day)) <= 1
  /\ BalanceMatchesRows

ProcessedNotDue(d, event, today) ==
  /\ TxOwned(d, event.transactionId, event.userId)
  /\ d.txs[event.transactionId].lastProcessed # Null
  /\ d.txs[event.transactionId].nextRecurringDate # Null
  /\ d.txs[event.transactionId].nextRecurringDate > today

\* C4: a processing step that starts on a recurring transaction that was already
\* processed and is not due (lastProcessed set, nextRecurringDate later than now)
\* ends there: no row is created, no balance changes, lastProcessed and
\* nextRecurringDate stay as they are - every time it is run.
NotDueStepChangesNothing ==
  [][\A w \in Workers :
       (/\ proc[w].pc = "find"
        /\ proc'[w] # proc[w]
        /\ ProcessedNotDue(db, proc[w].event, now)) =>
         /\ db' = db
         /\ proc'[w].pc = "idle"
         /\ proc'[w].outcome = "skipped"]_vars

\* C4 witness: a worker has skipped the work item of a transaction that is processed
\* and not due.
SkippedProcessedNotDue ==
  \E w \in Workers :
    /\ proc[w].pc = "idle"
    /\ proc[w].outcome = "skipped"
    /\ ProcessedNotDue(db, proc[w].event, now)

\* SpecFailing: the recurring jobs with one worker, whose transaction block may throw
\* at any of its three statements.
NextFailing ==
  \/ OpenAccount
  \/ EnterRecurring
  \/ Discover
  \/ TakeWorkItem("w1")
  \/ FindTransaction("w1")
  \/ \E failAt \in 0..3 : ChargeTransaction("w1", failAt)
  \/ Tick(1, MaxDay)

SpecFailing == InitRecurring /\ [][NextFailing]_vars

\* C11: the three statements of the processing step's transaction block (insert the
\* "(Recurring)" copy, change the balance, stamp lastProcessed and nextRecurringDate)
\* are one atomic unit: a block in which any of them throws persists nothing, and a
\* transaction that was due before the failed block is still due after it.
FailedChargePersistsNothing ==
  [][\A w \in Workers :
       (proc[w].pc = "charge" /\ proc'[w].pc = "find") =>
         LET id == proc[w].event.transactionId
         IN /\ db' = db
            /\ (id \in DOMAIN db.txs /\ isTransactionDue(db.txs[id], now)) =>
                 (id \in DOMAIN db'.txs /\ isTransactionDue(db'.txs[id], now))]_vars

\* C11 witness: a worker's transaction block threw, the step is to run again, and the
\* transaction it names is due with no copy made of it.
ChargeThrewAndStillDue ==
  \E w \in Workers :
    /\ proc[w].pc = "find"
    /\ proc[w].outcome = "threw"
    /\ TxOwned(db, proc[w].event.transactionId, proc[w].event.userId)
    /\ isTransactionDue(db.txs[proc[w].event.transactionId], now)
    /\ \A i \in DOMAIN db.txs : db.txs[i].origin # proc[w].event.transactionId

\* C14: a recurring transaction entered with date D and interval I is stored with
\* nextRecurringDate = the next date after D by I, and no "(Recurring)" copy of it is
\* dated before that next date.
FirstOccurrenceOnNextDate ==
  \A i \in DOMAIN db.txs :
    /\ (db.txs[i].isRecurring /\ db.txs[i].lastProcessed = Null) =>
         db.txs[i].nextRecurringDate =
           calculateNextRecurringDateOfActions(db.txs[i].date, db.txs[i].recurringInterval)
    /\ db.txs[i].origin # 0 =>
         LET original == db.txs[db.txs[i].origin]
         IN db.txs[i].date >=
              calculateNextRecurringDateOfActions(original.date, original.recurringInterval)

MaxAlerts == 2
LastBudgetDay == 45
HalfMonth == 15
AlertThreshold == 80

Runs == {"run1", "run2"}

IdleRun == [pc |-> "idle", budgets |-> EmptyMap, todo |-> <<>>]

\* updateBudget(amount): upsert of the caller's budget
updateBudget(u, amount) ==
  /\ db' = [db EXCEPT !.budgets =
              [b \in DOMAIN @ \cup {u} |->
                 IF b \in DOMAIN @ THEN [@[b] EXCEPT !.amount = amount]
                 ELSE [amount |-> amount, lastAlertSent |-> Null]]]
  /\ call' = Returned("updateBudget", u, 0, 1, 1, "")
  /\ UNCHANGED <<initial, now, proc, queue, sent>>

\* budget.user.accounts[0] of the fetched budget: the id of a default account, 0 if none
DefaultAccountOf(d, u) ==
  IF DefaultsOf(d, u) = {} THEN 0
  ELSE CHOOSE i \in DefaultsOf(d, u) : \A j \in DefaultsOf(d, u) : i <= j

RECURSIVE SeqOf(_)
SeqOf(S) == IF S = {} THEN <<>> ELSE LET x == CHOOSE y \in S : TRUE IN <<x>> \o SeqOf(S \ {x})

\* step "fetch-budgets"
FetchBudgets(r) ==
  /\ proc[r].pc = "idle"
  /\ proc' = [proc EXCEPT ![r] =
                [pc |-> "loop",
                 budgets |-> [u \in DOMAIN db.budgets |->
                                [amount |-> db.budgets[u].amount,
                                 lastAlertSent |-> db.budgets[u].lastAlertSent,
                                 defaultAccount |-> DefaultAccountOf(db, u)]],
                 todo |-> SeqOf(DOMAIN db.budgets)]]
  /\ UNCHANGED <<db, initial, call, now, queue, sent>>

RECURSIVE SumAmounts(_, _)
SumAmounts(txs, ids) ==
  IF ids = {} THEN 0
  ELSE LET i == CHOOSE x \in ids : TRUE IN txs[i].amount + SumAmounts(txs, ids \ {i})

\* the aggregate of "check-budget": EXPENSE amounts of the user on the account,
\* dated from the first day of the current month
ExpensesThisMonth(d, u, account, today) ==
  LET startDate == MakeDate(GetFullYear(today), GetMonth(today), 1)
  IN SumAmounts(d.txs, {i \in DOMAIN d.txs :
                          /\ d.txs[i].userId = u
                          /\ d.txs[i].accountId = account
                          /\ d.txs[i].type = "EXPENSE"
                          /\ d.txs[i].date >= startDate})

\* percentageUsed >= 80 && (!budget.lastAlertSent || isNewMonth(lastAlertSent, now)),
\* with percentageUsed = totalExpenses / budgetAmount * 100
ShouldAlert(budget, totalExpenses, today) ==
  /\ totalExpenses * 100 >= AlertThreshold * budget.amount
  /\ \/ budget.lastAlertSent = Null
     \/ isNewMonth(budget.lastAlertSent, today)

\* the loop of checkBudgetAlerts on the next fetched budget: skipped without a default
\* account, else the step "check-budget-<id>".  updateFails: db.budget.update throws
\* after the e-mail went out, the step fails and is run again.
CheckBudget(r, updateFails) ==
  LET u == Head(proc[r].todo)
      budget == proc[r].budgets[u]
      totalExpenses == ExpensesThisMonth(db, u, budget.defaultAccount, now)
  IN /\ proc[r].pc = "loop"
     /\ proc[r].todo # <<>>
     /\ IF budget.defaultAccount = 0 \/ ~ShouldAlert(budget, totalExpenses, now)
        THEN /\ ~updateFails
             /\ proc' = [proc EXCEPT ![r].todo = Tail(@)]
             /\ UNCHANGED <<db, sent>>
        ELSE /\ Len(sent) < MaxAlerts
             /\ sent' = Append(sent, [user |-> u, date |-> now])
             /\ IF updateFails
                THEN UNCHANGED <<db, proc>>
                ELSE /\ db' = [db EXCEPT !.budgets[u].lastAlertSent = now]
                     /\ proc' = [proc EXCEPT ![r].todo = Tail(@)]
     /\ UNCHANGED <<initial, call, now, queue>>

\* the loop is over: the run ends
FinishRun(r) ==
  /\ proc[r].pc = "loop"
  /\ proc[r].todo = <<>>
  /\ proc' = [proc EXCEPT ![r] = IdleRun]
  /\ UNCHANGED <<db, initial, call, now, queue, sent>>

InitBudget ==
  /\ db = EmptyDb
  /\ initial = <<>>
  /\ call = NoCall
  /\ now = 0
  /\ proc = [r \in Runs |-> IdleRun]
  /\ queue = <<>>
  /\ sent = <<>>

SetBudget ==
  /\ call.n < MaxCalls
  /\ updateBudget("u1", MaxAmount)

Spend ==
  /\ db.accounts # <<>>
  /\ \E data \in PlainData : data.accountId = 1 /\ createTransaction("u1", data, 0)

NextBudget ==
  \/ OpenAccount
  \/ SetBudget
  \/ Spend
  \/ \E r \in Runs : FetchBudgets(r)
  \/ \E r \in Runs, updateFails \in BOOLEAN : CheckBudget(r, updateFails)
  \/ \E r \in Runs : FinishRun(r)
  \/ Tick(HalfMonth, LastBudgetDay)

SpecBudget == InitBudget /\ [][NextBudget]_vars

\* C8: for each budget and each calendar month at most one alert e-mail is sent,
\* whatever the number of runs, their overlap and the retries of a failed step.
AtMostOneAlertPerMonth ==
  \A i, j \in 1..Len(sent) :
    (i < j /\ sent[i].user = sent[j].user) => isNewMonth(sent[i].date, sent[j].date)

(***************************************************************************)
(* SpecSchema: transactions entered and edited with any form data that       *)
(* passes transactionSchema, and processed by the recurring jobs.            *)
(***************************************************************************)
superRefineSkipped(data) == TRUE

\* the superRefine of transactionSchema: a recurring transaction names its interval
superRefine(data) == data.isRecurring => data.recurringInterval # NoInterval

\* form data that passes transactionSchema, dated today
SchemaData ==
  {data \in [type : {"EXPENSE"}, amount : {1}, accountId : {1}, date : {now},
             category : {"food"}, isRecurring : BOOLEAN,
             recurringInterval : {NoInterval, "DAILY", "MONTHLY"}] : superRefine(data)}

SubmitTransaction ==
  /\ call.n < MaxCalls
  /\ db.accounts # <<>>
  /\ db.txSeq < MaxOriginals
  /\ \E data \in SchemaData : createTransaction("u1", data, 0)

EditTransaction ==
  /\ call.n < MaxCalls
  /\ \E id \in DOMAIN db.txs, data \in SchemaData : updateTransaction("u1", id, data, 0)

NextSchema ==
  \/ OpenAccount
  \/ SubmitTransaction
  \/ EditTransaction
  \/ Discover
  \/ TakeWorkItem("w1")
  \/ FindTransaction("w1")
  \/ ChargeTransaction("w1", 0)

SpecSchema == InitRecurring /\ [][NextSchema]_vars

\* C13: every persisted transaction has recurringInterval set if and only if
\* isRecurring is true.
IntervalIffRecurring ==
  \A i \in DOMAIN db.txs :
    db.txs[i].isRecurring <=> db.txs[i].recurringInterval # NoInterval

\* C13 as amended: every persisted transaction with isRecurring true has
\* recurringInterval set.
RecurringHasInterval ==
  \A i \in DOMAIN db.txs :
    db.txs[i].isRecurring => db.txs[i].recurringInterval # NoInterval

\* C13 witness: an updateTransaction has succeeded on a transaction that is recurring
\* afterwards, and a "(Recurring)" copy exists.
RecurringRowEditedAndCopied ==
  /\ call.op = "updateTransaction"
  /\ call.ok
  /\ db.txs[call.target].isRecurring
  /\ \E i \in DOMAIN db.txs : db.txs[i].origin # 0

(***************************************************************************)
(* SpecReport: the monthly report job.  A run fetches the users and, user by *)
(* user, runs the step "generate-report-<id>": the insights are asked of the *)
(* generative model and the report e-mail is sent with them.                 *)
(***************************************************************************)
MaxReports == 2
MaxInsights == 4
FallbackCount == 3

\* what JSON.parse can return for the replies considered: an array of n strings,
\* an array of numbers, an object
JsonValues ==
  {[kind |-> "array", items |-> "string", n |-> k, text |-> "model"] : k \in 0..MaxInsights}
    \cup {[kind |-> "array", items |-> "number", n |-> 1, text |-> "model"],
          [kind |-> "object", items |-> "none", n |-> 0, text |-> "model"]}

NotJson == [kind |-> "none", items |-> "none", n |-> 0, text |-> "model"]

\* the outcomes of model.generateContent(prompt): it throws, or it answers a text,
\* which may be wrapped in a ``` fence
Replies ==
  [thrown : BOOLEAN, fenced : BOOLEAN, body : JsonValues \cup {NotJson}]

\* the three fixed default insights
FallbackInsights ==
  [kind |-> "array", items |-> "string", n |-> FallbackCount, text |-> "default"]

\* text.replace(/```(?:json)?\n?/g, "").trim()
CleanedText(reply) == [reply EXCEPT !.fenced = FALSE]

\* JSON.parse throws on a text that is no JSON document
JsonParses(text) == ~text.fenced /\ text.body # NotJson

\* generateFinancialInsights(stats, month): the parsed reply, the defaults on a throw
generateFinancialInsights(reply) ==
  IF reply.thrown THEN FallbackInsights
  ELSE IF JsonParses(CleanedText(reply)) THEN CleanedText(reply).body
  ELSE FallbackInsights

IdleReport == [pc |-> "idle", todo |-> <<>>]

\* step "fetch-users"
FetchUsers ==
  /\ proc.pc = "idle"
  /\ proc' = [pc |-> "loop", todo |-> SeqOf(Users)]
  /\ UNCHANGED <<db, initial, call, now, queue, sent>>

\* step "generate-report-<id>" for the next user: the insights, then the e-mail,
\* logged with the reply the insights were made from
GenerateReport(reply) ==
  /\ proc.pc = "loop"
  /\ proc.todo # <<>>
  /\ Len(sent) < MaxReports
  /\ sent' = Append(sent, [user |-> Head(proc.todo), reply |-> reply,
                           insights |-> generateFinancialInsights(reply)])
  /\ proc' = [proc EXCEPT !.todo = Tail(@)]
  /\ UNCHANGED <<db, initial, call, now, queue>>

\* return { processed: users.length }
FinishReports ==
  /\ proc.pc = "loop"
  /\ proc.todo = <<>>
  /\ proc' = IdleReport
  /\ UNCHANGED <<db, initial, call, now, queue, sent>>

InitReport ==
  /\ db = EmptyDb
  /\ initial = <<>>
  /\ call = NoCall
  /\ now = 0
  /\ proc = IdleReport
  /\ queue = <<>>
  /\ sent = <<>>

NextReport ==
  \/ FetchUsers
  \/ \E reply \in Replies : GenerateReport(reply)
  \/ FinishReports

SpecReport == InitReport /\ [][NextReport]_vars

\* the generative-text call failed: it threw, or its answer is not a JSON array of strings
InsightCallFailed(reply) ==
  \/ reply.thrown
  \/ reply.body.kind # "array"
  \/ reply.body.items # "string"

\* C15: for every user of a report run, a failed generative-text call (an exception,
\* or an answer that is not a JSON array of strings) gives exactly the three fixed
\* default insights in the report e-mail that is sent.
FailedInsightsFallBack ==
  \A i \in 1..Len(sent) :
    InsightCallFailed(sent[i].reply) => sent[i].insights = FallbackInsights

(***************************************************************************)
(* SpecGate: createAccount and createTransaction as they are called: with    *)
(* the identity auth() gives (none when signed out) and the decision that    *)
(* aj.protect gives for the request.                                         *)
(***************************************************************************)
Decisions == {"ALLOW", "RATE_LIMIT", "DENY"}

protectSkipped(userId, decision) == ""

\* the head of both handlers: auth(), then aj.protect(req, {userId, requested: 1});
\* the message of the error thrown, "" when the request goes on
protect(userId, decision) ==
  IF userId = NoUser THEN "Unauthorized"
  ELSE IF decision = "RATE_LIMIT" THEN "Too many requests. Please try again later."
  ELSE IF decision = "DENY" THEN "Request blocked"
  ELSE ""

\* the catch of both handlers: throw new Error(error.message)
Rethrown(op, message) ==
  /\ call' = Returned(op, proc.userId, 0, 0, 0, message)
  /\ UNCHANGED <<db, initial, now, proc, queue, sent>>

\* a request arrives, signed in or not, and aj.protect will decide on it
Arrive ==
  /\ call.n < MaxCalls
  /\ proc' \in [userId : {"u1", NoUser}, decision : Decisions]
  /\ UNCHANGED <<db, initial, call, now, queue, sent>>

GatedCreateAccount ==
  /\ call.n < MaxCalls
  /\ IF protect(proc.userId, proc.decision) # ""
     THEN Rethrown("createAccount", protect(proc.userId, proc.decision))
     ELSE \E data \in AccountData, failAt \in 0..2 : createAccount(proc.userId, data, failAt)

GatedCreateTransaction ==
  /\ call.n < MaxCalls
  /\ IF protect(proc.userId, proc.decision) # ""
     THEN Rethrown("createTransaction", protect(proc.userId, proc.decision))
     ELSE \E data \in PlainData, failAt \in 0..2 :
            createTransaction(proc.userId, data, failAt)

InitGate ==
  /\ db = EmptyDb
  /\ initial = <<>>
  /\ call = NoCall
  /\ now = 0
  /\ proc = [userId |-> NoUser, decision |-> "ALLOW"]
  /\ queue = <<>>
  /\ sent = <<>>

NextGate ==
  \/ Arrive
  \/ GatedCreateAccount
  \/ GatedCreateTransaction

SpecGate == InitGate /\ [][NextGate]_vars

\* C16: a createTransaction or createAccount call without an authenticated identity,
\* or denied by the rate-limit collaborator, writes nothing and fails with the error
\* 'Unauthorized', 'Too many requests. Please try again later.' (rate-limit denial)
\* or 'Request blocked' (any other denial).
DeniedCallWritesNothing ==
  [][call'.n # call.n =>
       /\ proc.userId = NoUser => (db' = db /\ ~call'.ok /\ call'.error = "Unauthorized")
       /\ (proc.userId # NoUser /\ proc.decision = "RATE_LIMIT") =>
            /\ db' = db
            /\ ~call'.ok
            /\ call'.error = "Too many requests. Please try again later."
       /\ (proc.userId # NoUser /\ proc.decision = "DENY") =>
            (db' = db /\ ~call'.ok /\ call'.error = "Request blocked")]_vars

\* C16 witness: a rate-limited createTransaction has failed while the caller has an
\* account it could have written to.
RateLimitedCallFailed ==
  /\ call.op = "createTransaction"
  /\ call.error = "Too many requests. Please try again later."
  /\ proc.decision = "RATE_LIMIT"
  /\ AccountsOf(db, "u1") # {}

(***************************************************************************)
(* SpecInterleave: two calls of the balance-changing server actions by one   *)
(* user with their awaits interleaved.  Each handler is a read (findUnique   *)
(* or findMany, and the arithmetic on what was read) followed, after an      *)
(* await, by its db.$transaction block.                                      *)
(***************************************************************************)
Callers == {"c1", "c2"}

IdleCaller ==
  [pc |-> "idle", data |-> NoRow, id |-> 0, ids |-> {}, balance |-> 0,
   originalTransaction |-> NoRow, changes |-> EmptyMap]

\* createTransaction up to the account read: account.balance is kept for newBalance
ReadAccount(c, data) ==
  /\ proc[c].pc = "idle"
  /\ call.n < MaxCalls
  /\ db.txSeq < MaxTxs
  /\ AccountOwned(db, data.accountId, "u1")
  /\ proc' = [proc EXCEPT ![c] = [IdleCaller EXCEPT !.pc = "create", !.data = data,
                                    !.balance = db.accounts[data.accountId].balance]]
  /\ UNCHANGED <<db, initial, call, now, queue, sent>>

\* createTransaction, the transaction block: create the row, set balance to newBalance
WriteCreated(c) ==
  LET data == proc[c].data
      newBalance == proc[c].balance + Signed(data.type, data.amount)
      row == [type |-> data.type, amount |-> data.amount, accountId |-> data.accountId,
              userId |-> "u1", date |-> data.date, category |-> data.category,
              isRecurring |-> data.isRecurring,
              recurringInterval |-> data.recurringInterval,
              nextRecurringDate |-> nextRecurringDateFor(data),
              lastProcessed |-> Null, origin |-> 0]
      created == TxCreate(Ok(db), row)
      stages == <<created, AccountSetBalance(created, data.accountId, newBalance)>>
      k == Transaction(stages, 0)
  IN /\ proc[c].pc = "create"
     /\ db' = Persisted(db, stages, k)
     /\ call' = Returned("createTransaction", "u1", db.txSeq + 1, k, Len(stages),
                         IF k = Len(stages) THEN "" ELSE "database error")
     /\ proc' = [proc EXCEPT ![c] = IdleCaller]
     /\ UNCHANGED <<initial, now, queue, sent>>

\* updateTransaction up to the read of the original transaction
ReadOriginal(c, id, data) ==
  /\ proc[c].pc = "idle"
  /\ call.n < MaxCalls
  /\ TxOwned(db, id, "u1")
  /\ proc' = [proc EXCEPT ![c] = [IdleCaller EXCEPT !.pc = "update", !.data = data,
                                    !.id = id, !.originalTransaction = db.txs[id]]]
  /\ UNCHANGED <<db, initial, call, now, queue, sent>>

\* updateTransaction, the transaction block: update the row, increment the balance of
\* data.accountId by the net change computed from the original read before
WriteUpdated(c) ==
  LET data == proc[c].data
      id == proc[c].id
      originalTransaction == proc[c].originalTransaction
      netBalanceChange == Signed(data.type, data.amount)
                            - Signed(originalTransaction.type, originalTransaction.amount)
      stored == IF id \in DOMAIN db.txs THEN db.txs[id] ELSE NoRow
      row == [stored EXCEPT !.type = data.type, !.amount = data.amount,
                            !.accountId = data.accountId, !.date = data.date,
                  !.category = data.category,
                            !.isRecurring = data.isRecurring,
                            !.recurringInterval =
                               IF data.recurringInterval = NoInterval THEN @
                               ELSE data.recurringInterval,
                            !.nextRecurringDate = nextRecurringDateFor(data)]
      updated == TxUpdate(Ok(db), id, "u1", row)
      stages == <<updated,
                  AccountIncrement(updated, data.accountId, JsNum(netBalanceChange))>>
      k == Transaction(stages, 0)
  IN /\ proc[c].pc = "update"
     /\ db' = Persisted(db, stages, k)
     /\ call' = Returned("updateTransaction", "u1", id, k, Len(stages),
                         IF k = Len(stages) THEN "" ELSE "database error")
     /\ proc' = [proc EXCEPT ![c] = IdleCaller]
     /\ UNCHANGED <<initial, now, queue, sent>>

\* bulkDeleteTransactions up to accountBalanceChanges: findMany, which returns the
\* caller's transactions among transactionIds in some order, and the reduce
ReadTransactions(c, transactionIds) ==
  /\ proc[c].pc = "idle"
  /\ call.n < MaxCalls
  /\ transactionIds # {}
  /\ \E order \in Orders({i \in transactionIds : TxOwned(db, i, "u1")}) :
       proc' = [proc EXCEPT ![c] =
                  [IdleCaller EXCEPT !.pc = "delete", !.ids = transactionIds,
                     !.changes = accountBalanceChanges(db.txs, order, EmptyMap)]]
  /\ UNCHANGED <<db, initial, call, now, queue, sent>>

\* bulkDeleteTransactions, the transaction block: deleteMany, then one increment per
\* account of the changes computed before
WriteDeleted(c) ==
  LET changes == proc[c].changes
      deleted == TxDeleteMany(Ok(db), proc[c].ids, "u1")
      stages == <<deleted>> \o BalanceStages(deleted, changes, DOMAIN changes)
      k == Transaction(stages, 0)
  IN /\ proc[c].pc = "delete"
     /\ db' = Persisted(db, stages, k)
     /\ call' = Returned("bulkDeleteTransactions", "u1", 0, k, Len(stages),
                         IF k = Len(stages) THEN "" ELSE "database error")
     /\ proc' = [proc EXCEPT ![c] = IdleCaller]
     /\ UNCHANGED <<initial, now, queue, sent>>

InitInterleave ==
  /\ db = EmptyDb
  /\ initial = <<>>
  /\ call = NoCall
  /\ now = 0
  /\ proc = [c \in Callers |-> IdleCaller]
  /\ queue = <<>>
  /\ sent = <<>>

BeginCreate == \E c \in Callers, data \in PlainData : ReadAccount(c, data)

BeginUpdate ==
  \E c \in Callers, id \in TxIds, data \in PlainData : ReadOriginal(c, id, data)

BeginDelete ==
  \E c \in Callers, transactionIds \in SUBSET TxIds : ReadTransactions(c, transactionIds)

NextInterleave ==
  \/ OpenAccount
  \/ BeginCreate
  \/ \E c \in Callers : WriteCreated(c)
  \/ BeginUpdate
  \/ \E c \in Callers : WriteUpdated(c)
  \/ BeginDelete
  \/ \E c \in Callers : WriteDeleted(c)

SpecInterleave == InitInterleave /\ [][NextInterleave]_vars

\* C17: when balance-changing operations on one account run with interleaved steps,
\* then once all of them have ended the balance of every account equals its initial
\* balance plus the signed amounts of the transactions persisted for it.
InterleavedBalanceEqualsLedger ==
  (\A c \in Callers : proc[c].pc = "idle") =>
    \A a \in DOMAIN db.accounts : db.accounts[a].balance = initial[a] + Ledger(db, a)


\* one worker's step is a transaction block that committed
Charged(w) == proc[w].pc = "charge" /\ proc'[w].pc = "idle" /\ proc'[w].outcome = "charged"

\* C21: a processing step that runs its block on a due recurring transaction creates
\* exactly one new transaction with the original's type, amount, category, user and
\* account, with isRecurring false and date = now; changes the account's balance by
\* +amount for INCOME and -amount for EXPENSE; sets the original's lastProcessed to now
\* and its nextRecurringDate to nextDate(now, recurringInterval); and leaves the
\* original's amount, type and account as they were.
ChargeCopiesAndStamps ==
  [][\A w \in Workers :
       Charged(w) =>
         LET id == proc[w].event.transactionId
             original == db.txs[id]
             new == db.txSeq + 1
         IN /\ isTransactionDue(original, now) /\ original.isRecurring
            /\ DOMAIN db'.txs = DOMAIN db.txs \cup {new} /\ new \notin DOMAIN db.txs
            /\ \A i \in DOMAIN db.txs \ {id} : db'.txs[i] = db.txs[i]
            /\ db'.txs[new].type = original.type
            /\ db'.txs[new].amount = original.amount
            /\ db'.txs[new].category = original.category
            /\ db'.txs[new].userId = original.userId
            /\ db'.txs[new].accountId = original.accountId
            /\ db'.txs[new].isRecurring = FALSE
            /\ db'.txs[new].date = now
            /\ db'.accounts[original.accountId].balance =
                 db.accounts[original.accountId].balance
                   + (IF original.type = "INCOME" THEN original.amount
                      ELSE -original.amount)
            /\ db'.txs[id] =
                 [original EXCEPT
                    !.lastProcessed = now,
                    !.nextRecurringDate =
                      calculateNextRecurringDate(now, original.recurringInterval)]]_vars

\* C21 witness: a weekly income entered on day 0 was processed on day 0: the account
\* holds the opening balance plus the amount twice (once for the entry, once for the
\* copy), the copy is row 2, and the original is stamped for day 7.
WeeklyIncomeCharged ==
  /\ proc["w1"].outcome = "charged"
  /\ 2 \in DOMAIN db.txs
  /\ db.txs[1].type = "INCOME" /\ db.txs[1].recurringInterval = "WEEKLY"
  /\ db.txs[2].origin = 1 /\ db.txs[2].isRecurring = FALSE
  /\ db.txs[1].lastProcessed = 0 /\ db.txs[1].nextRecurringDate = 7
  /\ db.accounts[1].balance = OpeningBalance + 2 * db.txs[1].amount


(***************************************************************************)
(* The next-date function on its own: a date and an interval are drawn,    *)
(* the scheduler's function is applied, the transaction actions' function  *)
(* is applied to the same input, and the scheduler's function is applied   *)
(* again to its own result.                                                *)
(***************************************************************************)
MaxDate == 1200

MaxSteps == 12

RecognisedIntervals == {"DAILY", "WEEKLY", "MONTHLY", "YEARLY"}

NoDates == [interval |-> NoInterval, date |-> Null, next |-> Null, ofActions |-> Null,
            steps |-> 0]

InitDates ==
  /\ db = EmptyDb
  /\ initial = <<>>
  /\ call = NoCall
  /\ now \in 0..MaxDate
  /\ proc = NoDates
  /\ queue = <<>>
  /\ sent = <<>>

\* next = calculateNextRecurringDate(date, interval); date is copied, not changed
ApplyScheduler(interval) ==
  /\ proc.steps = 0
  /\ proc' = [proc EXCEPT !.interval = interval, !.date = now,
                          !.next = calculateNextRecurringDate(now, interval),
                          !.steps = 1]
  /\ UNCHANGED <<db, initial, call, now, queue, sent>>

\* the transaction actions' function on the same date and interval
ApplyActions ==
  /\ proc.steps = 1
  /\ proc.ofActions = Null
  /\ proc' = [proc EXCEPT !.ofActions =
                            calculateNextRecurringDateOfActions(proc.date, proc.interval)]
  /\ UNCHANGED <<db, initial, call, now, queue, sent>>

\* next = calculateNextRecurringDate(next, interval)
ApplyAgain ==
  /\ proc.steps \in 1..(MaxSteps - 1)
  /\ proc' = [proc EXCEPT !.next = calculateNextRecurringDate(proc.next, proc.interval),
                          !.steps = @ + 1]
  /\ UNCHANGED <<db, initial, call, now, queue, sent>>

NextDates ==
  \/ \E interval \in RecognisedIntervals : ApplyScheduler(interval)
  \/ ApplyActions
  \/ ApplyAgain

SpecDates == InitDates /\ [][NextDates]_vars

\* the day of month, or the last day of the month where the month is shorter
ClampedDate(y, m, day) ==
  MakeDate(y, m, IF day <= DaysInMonth(y + (m \div 12), m % 12) THEN day
                 ELSE DaysInMonth(y + (m \div 12), m % 12))

RepeatedStepsMatchLongerPeriod ==
  /\ (proc.interval = "MONTHLY" /\ proc.steps = 12) =>
       /\ GetFullYear(proc.next) = GetFullYear(proc.date) + 1
       /\ GetMonth(proc.next) = GetMonth(proc.date)
       /\ GetDate(proc.next) <= GetDate(proc.date)
       /\ GetDate(proc.date) <= 28 =>
            proc.next = calculateNextRecurringDate(proc.date, "YEARLY")
  /\ (proc.interval = "DAILY" /\ proc.steps = 7) =>
       proc.next = calculateNextRecurringDate(proc.date, "WEEKLY")


(***************************************************************************)
(* SpecAlert: one run of checkBudgetAlerts at a time, with the time of day. *)
(* An instant is a day number and a slot of the day; slot 0 is midnight,    *)
(* the time of a date picked in the form's calendar.                        *)
(***************************************************************************)
SlotsPerDay == 2

FirstNoon == 1

LastInstant == 63

MonthOfSlots == 62

BudgetAmount == 5

DayOf(t) == t \div SlotsPerDay

TimeOf(t) == t % SlotsPerDay

At(day, time) == day * SlotsPerDay + time

\* const startDate = new Date(); startDate.setDate(1): the day of month becomes 1,
\* the time of day stays
startDateOf(t) ==
  At(MakeDate(GetFullYear(DayOf(t)), GetMonth(DayOf(t)), 1), TimeOf(t))

\* db.transaction.aggregate({ where: { userId, accountId, type: "EXPENSE",
\* date: { gte: startDate } }, _sum: { amount } })
ExpensesSince(d, u, account, startDate) ==
  SumAmounts(d.txs, {i \in DOMAIN d.txs :
                       /\ d.txs[i].userId = u
                       /\ d.txs[i].accountId = account
                       /\ d.txs[i].type = "EXPENSE"
                       /\ d.txs[i].date >= startDate})

\* the condition of "check-budget" on instants
ShouldAlertAt(budget, totalExpenses, t) ==
  /\ totalExpenses * 100 >= AlertThreshold * budget.amount
  /\ \/ budget.lastAlertSent = Null
     \/ isNewMonth(DayOf(budget.lastAlertSent), DayOf(t))

\* the loop of checkBudgetAlerts on the next fetched budget, at the instant now
CheckBudgetAt(r) ==
  LET u == Head(proc[r].todo)
      budget == proc[r].budgets[u]
      totalExpenses == ExpensesSince(db, u, budget.defaultAccount, startDateOf(now))
  IN /\ proc[r].pc = "loop"
     /\ proc[r].todo # <<>>
     /\ proc' = [proc EXCEPT ![r].todo = Tail(@)]
     /\ IF budget.defaultAccount = 0 \/ ~ShouldAlertAt(budget, totalExpenses, now)
        THEN UNCHANGED <<db, sent>>
        ELSE /\ Len(sent) < MaxAlerts
             /\ sent' = Append(sent, [user |-> u, date |-> now])
             /\ db' = [db EXCEPT !.budgets[u].lastAlertSent = now]
     /\ UNCHANGED <<initial, call, now, queue>>

\* form data of an expense or income dated today: at this instant (the form's
\* default) or at midnight (a day picked in the calendar)
AlertData ==
  [type : {"INCOME", "EXPENSE"}, amount : {2, 4}, accountId : {1},
   date : {now, At(DayOf(now), 0)}, category : {"food"}, isRecurring : {FALSE},
   recurringInterval : {NoInterval}]

InitAlert ==
  /\ db = EmptyDb
  /\ initial = <<>>
  /\ call = NoCall
  /\ now = 0
  /\ proc = [r \in {"run1"} |-> IdleRun]
  /\ queue = <<>>
  /\ sent = <<>>

SetBudgetAmount ==
  /\ "u1" \notin DOMAIN db.budgets
  /\ updateBudget("u1", BudgetAmount)

SpendAt ==
  /\ db.accounts # <<>>
  /\ \E data \in AlertData : createTransaction("u1", data, 0)

\* midnight to noon of the first day
NoonTick == Tick(1, FirstNoon)

\* on to the same time of the first day of the next month
MonthTick == Tick(MonthOfSlots, LastInstant)

NextAlert ==
  \/ OpenAccount
  \/ SetBudgetAmount
  \/ SpendAt
  \/ FetchBudgets("run1")
  \/ CheckBudgetAt("run1")
  \/ FinishRun("run1")
  \/ NoonTick
  \/ MonthTick

SpecAlert == InitAlert /\ [][NextAlert]_vars

\* the EXPENSE total of the user on the account, dated from the first day of the
\* month of the instant t up to t
ExpensesOfMonth(d, u, account, t) ==
  SumAmounts(d.txs, {i \in DOMAIN d.txs :
                       /\ d.txs[i].userId = u
                       /\ d.txs[i].accountId = account
                       /\ d.txs[i].type = "EXPENSE"
                       /\ DayOf(d.txs[i].date) >=
                            MakeDate(GetFullYear(DayOf(t)), GetMonth(DayOf(t)), 1)
                       /\ d.txs[i].date <= t})

\* C24: in one run, for a budget whose user has a default account, an e-mail is sent
\* and lastAlertSent is set to now if and only if the EXPENSE total on the default
\* account from the first day of the current calendar month to now is at least 80% of
\* the budget amount and lastAlertSent is unset or in an earlier month or year;
\* otherwise nothing is sent and lastAlertSent stays; a budget whose user had no
\* default account when the run fetched it is skipped with no effect.
AlertIffOverThresholdAndNewMonth ==
  [][\A r \in DOMAIN proc :
       (proc[r].pc = "loop" /\ proc[r].todo # <<>> /\ proc'[r].todo = Tail(proc[r].todo)) =>
         LET u == Head(proc[r].todo)
             account == proc[r].budgets[u].defaultAccount
             lastAlertSent == db.budgets[u].lastAlertSent
             due == /\ account # 0
                    /\ ExpensesOfMonth(db, u, account, now) * 100
                         >= AlertThreshold * db.budgets[u].amount
                    /\ \/ lastAlertSent = Null
                       \/ isNewMonth(DayOf(lastAlertSent), DayOf(now))
         IN IF due
            THEN /\ sent' = Append(sent, [user |-> u, date |-> now])
                 /\ db' = [db EXCEPT !.budgets[u].lastAlertSent = now]
            ELSE UNCHANGED <<db, sent>>]_vars


(***************************************************************************)
(* SpecStats: getMonthlyStats on its own.  The store holds up to           *)
(* MaxStatRows transactions of two users, dated around the ends of         *)
(* February 2025, and the function is called for a user and an instant of  *)
(* that month.                                                             *)
(***************************************************************************)
MaxStatRows == 2

FebFirst == 31

FebLast == 58

Categories == {"food", "rent"}

\* the last noon of January, the first midnight of February, the last midnight and
\* the last noon of February, and the first midnight of March
StatDates == {At(FebFirst - 1, 1), At(FebFirst, 0), At(FebLast, 0), At(FebLast, 1),
              At(FebLast + 1, 0)}

\* each user's account: account 1 is u1's, account 2 is u2's
AccountFor(u) == IF u = "u1" THEN 1 ELSE 2

StatRows ==
  {[NoRow EXCEPT !.type = f.type, !.amount = f.amount, !.category = f.category,
                 !.userId = f.userId, !.accountId = AccountFor(f.userId),
                 !.date = f.date] :
     f \in [type : {"INCOME", "EXPENSE"}, amount : Amounts, category : Categories,
            userId : Users, date : StatDates]}

\* the stores with up to MaxStatRows such transactions
StatStores ==
  UNION {[1..n -> StatRows] : n \in 0..MaxStatRows}

NoStats == [userId |-> "none", month |-> Null, totalExpenses |-> 0, totalIncome |-> 0,
            byCategory |-> EmptyMap, transactionCount |-> 0]

\* the reduce of getMonthlyStats over the fetched rows, in their order
RECURSIVE ReduceStats(_, _, _)
ReduceStats(txs, ids, stats) ==
  IF ids = {} THEN stats
  ELSE LET i == CHOOSE x \in ids : \A y \in ids : x <= y
           t == txs[i]
           amount == t.amount
           next ==
             IF t.type = "EXPENSE"
             THEN [stats EXCEPT
                     !.totalExpenses = @ + amount,
                     !.byCategory =
                       [c \in DOMAIN @ \cup {t.category} |->
                          (IF c \in DOMAIN @ THEN @[c] ELSE 0)
                            + (IF c = t.category THEN amount ELSE 0)]]
             ELSE [stats EXCEPT !.totalIncome = @ + amount]
       IN ReduceStats(txs, ids \ {i}, next)

\* getMonthlyStats(userId, month)
getMonthlyStats(d, userId, month) ==
  LET startDate == At(MakeDate(GetFullYear(DayOf(month)), GetMonth(DayOf(month)), 1), 0)
      endDate == At(MakeDate(GetFullYear(DayOf(month)), GetMonth(DayOf(month)) + 1, 0), 0)
      transactions == {i \in DOMAIN d.txs :
                         /\ d.txs[i].userId = userId
                         /\ d.txs[i].date >= startDate
                         /\ d.txs[i].date <= endDate}
  IN ReduceStats(d.txs, transactions,
                 [NoStats EXCEPT !.userId = userId, !.month = month,
                                 !.transactionCount = Cardinality(transactions)])

InitStats ==
  /\ \E txs \in StatStores :
       db = [EmptyDb EXCEPT
               !.txs = txs, !.txSeq = Len(txs),
               !.accounts =
                 [a \in 1..2 |->
                    [userId |-> IF a = 1 THEN "u1" ELSE "u2",
                     balance |-> OpeningBalance
                                   + SumSigned(txs, {i \in DOMAIN txs : txs[i].accountId = a}),
                     isDefault |-> TRUE]]]
  /\ initial = <<OpeningBalance, OpeningBalance>>
  /\ call = NoCall
  /\ now \in {At(FebFirst, 1), At(FebLast, 1)}
  /\ proc = NoStats
  /\ queue = <<>>
  /\ sent = <<>>

\* one call of getMonthlyStats for a user and the month of the instant now
GetMonthlyStats(userId) ==
  /\ proc.userId = "none"
  /\ proc' = getMonthlyStats(db, userId, now)
  /\ UNCHANGED <<db, initial, call, now, queue, sent>>

NextStats == \E userId \in Users : GetMonthlyStats(userId)

SpecStats == InitStats /\ [][NextStats]_vars

\* the user's transactions dated from the first to the last day of the month of t
CountedIn(d, u, t) ==
  {i \in DOMAIN d.txs :
     /\ d.txs[i].userId = u
     /\ GetFullYear(DayOf(d.txs[i].date)) = GetFullYear(DayOf(t))
     /\ GetMonth(DayOf(d.txs[i].date)) = GetMonth(DayOf(t))}

\* C25: getMonthlyStats for a user and a month counts every transaction of that user
\* dated from the first to the last day of the month inclusive and no other:
\* totalExpenses is the sum of their EXPENSE amounts, totalIncome the sum of the other
\* amounts, byCategory[c] the sum of the EXPENSE amounts of category c,
\* transactionCount their number; and the store is as it was.
MonthlyStatsCountTheMonth ==
  [][(proc.userId = "none" /\ proc'.userId # "none") =>
       LET counted == CountedIn(db, proc'.userId, proc'.month)
           expenses == {i \in counted : db.txs[i].type = "EXPENSE"}
       IN /\ db' = db
          /\ proc'.transactionCount = Cardinality(counted)
          /\ proc'.totalExpenses = SumAmounts(db.txs, expenses)
          /\ proc'.totalIncome = SumAmounts(db.txs, counted \ expenses)
          /\ DOMAIN proc'.byCategory = {db.txs[i].category : i \in expenses}
          /\ \A c \in DOMAIN proc'.byCategory :
               proc'.byCategory[c] =
                 SumAmounts(db.txs, {i \in expenses : db.txs[i].category = c})]_vars


(***************************************************************************)
(* SpecUser: checkUser called by overlapping requests.  A request carries  *)
(* the identity that currentUser() returns; db.user.findUnique by          *)
(* clerkUserId takes a unique column, so a second row for one identity is  *)
(* refused by the database.                                                *)
(***************************************************************************)
MaxChecks == 3

Identities == {"clerk1", "clerk2"}

IdleCheck == [pc |-> "idle", identity |-> NoUser, returned |-> "none", calls |-> 0]

UsersOf(d, identity) == {i \in DOMAIN d.users : d.users[i].clerkUserId = identity}

\* db.user.create({ data: { clerkUserId, ... } }): throws on a second row for the
\* identity
UserCreate(s, identity) ==
  IF s.err \/ UsersOf(s.d, identity) # {} THEN Thrown(s)
  ELSE [s EXCEPT !.d.users = Append(@, [clerkUserId |-> identity])]

\* checkUser up to the result of findUnique: the row is returned if there is one
FindUser(c, identity) ==
  /\ proc[c].pc \in {"idle", "done"}
  /\ proc[c].calls < MaxChecks
  /\ proc' = [proc EXCEPT ![c] =
                [pc |-> IF UsersOf(db, identity) # {} THEN "done" ELSE "create",
                 identity |-> identity,
                 returned |-> IF UsersOf(db, identity) # {} THEN "row" ELSE "none",
                 calls |-> @.calls + 1]]
  /\ UNCHANGED <<db, initial, call, now, queue, sent>>

\* checkUser from db.user.create on: the new row is returned; a create that throws
\* is caught and logged, and the function returns nothing
CreateUser(c) ==
  LET created == UserCreate(Ok(db), proc[c].identity)
  IN /\ proc[c].pc = "create"
     /\ db' = created.d
     /\ proc' = [proc EXCEPT ![c].pc = "done",
                             ![c].returned = IF created.err THEN "undefined" ELSE "row"]
     /\ UNCHANGED <<initial, call, now, queue, sent>>

InitUser ==
  /\ db = EmptyDb
  /\ initial = <<>>
  /\ call = NoCall
  /\ now = 0
  /\ proc = [c \in Callers |-> IdleCheck]
  /\ queue = <<>>
  /\ sent = <<>>

NextUser ==
  \/ \E c \in Callers, identity \in Identities : FindUser(c, identity)
  \/ \E c \in Callers : CreateUser(c)

SpecUser == InitUser /\ [][NextUser]_vars

\* C26: after any number of checkUser calls for one authenticated identity, two
\* overlapping first requests included, exactly one User row exists for the identity
\* and every call returned that row, never undefined.
EveryCheckReturnsTheOneRow ==
  \A c \in Callers :
    proc[c].pc = "done" =>
      /\ Cardinality(UsersOf(db, proc[c].identity)) = 1
      /\ proc[c].returned = "row"


\* C27: the processing step generates a transaction only from an original that is
\* still recurring at processing time: a step of a run whose work item names a
\* transaction that is not recurring (any more) creates no transaction and changes no
\* balance.
NonRecurringIsNeverCharged ==
  [][\A w \in Workers :
       LET id == proc[w].event.transactionId
       IN (/\ proc'[w] # proc[w]
           /\ proc[w].pc \in {"find", "charge"}
           /\ id \in DOMAIN db.txs
           /\ ~(db.txs[id].isRecurring /\ db.txs[id].recurringInterval # NoInterval))
          => (db'.txs = db.txs /\ db'.accounts = db.accounts)]_vars


(***************************************************************************)
(* SpecUnchecked: the recurring jobs on transactions entered through the   *)
(* server action directly.  createTransaction stores its argument without  *)
(* parsing it with transactionSchema, so a recurring transaction may come  *)
(* without an interval.                                                    *)
(***************************************************************************)
UncheckedData ==
  [type : {"EXPENSE"}, amount : {1}, accountId : {1}, date : {now},
   category : {"rent"}, isRecurring : {TRUE}, recurringInterval : {NoInterval, "DAILY"}]

EnterUnchecked ==
  /\ db.accounts # <<>>
  /\ db.txSeq < MaxOriginals
  /\ \E data \in UncheckedData : createTransaction("u1", data, 0)

NextUnchecked ==
  \/ OpenAccount
  \/ EnterUnchecked
  \/ Discover
  \/ TakeWorkItem("w1")
  \/ FindTransaction("w1")
  \/ ChargeTransaction("w1", 0)
  \/ Tick(1, MaxDay)

SpecUnchecked == InitRecurring /\ [][NextUnchecked]_vars

\* C28: immediately after a processing step has committed, the original is not due:
\* its nextRecurringDate is strictly later than its lastProcessed, whatever its stored
\* recurringInterval, a missing one included.
ChargedOriginalIsNotDue ==
  [][\A w \in Workers :
       Charged(w) =>
         LET original == db'.txs[proc[w].event.transactionId]
         IN /\ DateOf(original.nextRecurringDate) > original.lastProcessed
            /\ ~isTransactionDue(original, now)]_vars


\* C29: rows generated by the processing step are never picked up by discovery or
\* processed as recurring: a generated row is not recurring and is not selected by the
\* discovery query, no queued or running work item names one, and no row is generated
\* from a generated row.
GeneratedRowsDoNotCascade ==
  /\ \A i \in DOMAIN db.txs :
       db.txs[i].origin # 0 =>
         /\ ~db.txs[i].isRecurring
         /\ i \notin DueRows(db, now)
         /\ db.txs[db.txs[i].origin].origin = 0
  /\ \A k \in 1..Len(queue) : db.txs[queue[k].transactionId].origin = 0
  /\ \A w \in Workers :
       proc[w].pc # "idle" => db.txs[proc[w].event.transactionId].origin = 0

\* C29 witness: the original was processed on two days; its two generated rows are the
\* only ones, and a discovery run has queued the original once more.
TwoCopiesAndOriginalQueued ==
  /\ Cardinality({i \in DOMAIN db.txs : db.txs[i].origin = 1}) = 2
  /\ \E i, j \in DOMAIN db.txs :
       /\ db.txs[i].origin = 1 /\ db.txs[j].origin = 1
       /\ db.txs[i].date < db.txs[j].date
  /\ Len(queue) = 1
  /\ queue[1].transactionId = 1


(***************************************************************************)
(* SpecStray: the processing function on work items of any content.  An    *)
(* event "transaction.recurring.process" may lack an id, name a            *)
(* transaction that does not exist (never did, or was bulk-deleted after   *)
(* discovery) or name another user.                                        *)
(***************************************************************************)
StrayEvents == [transactionId : 0..MaxOriginals, userId : Users \cup {NoUser}]

\* inngest.send of one such event, while no other work item waits
SendStray ==
  /\ queue = <<>>
  /\ \E event \in StrayEvents : queue' = Append(queue, event)
  /\ UNCHANGED <<db, initial, call, now, proc, sent>>

\* the owner bulk-deletes the entered transaction
DeleteOriginal ==
  /\ call.n < MaxCalls
  /\ TxOwned(db, 1, "u1")
  /\ bulkDeleteTransactions("u1", {1}, <<1>>, 0)

NextStray ==
  \/ OpenAccount
  \/ EnterRecurring
  \/ Discover
  \/ SendStray
  \/ DeleteOriginal
  \/ TakeWorkItem("w1")
  \/ FindTransaction("w1")
  \/ ChargeTransaction("w1", 0)

SpecStray == InitRecurring /\ [][NextStray]_vars

\* C30: a work item without transactionId or userId, or whose transactionId does not
\* exist or does not belong to the event's userId, causes no write: the run that
\* takes it changes nothing in the store and ends (it does not throw, so it is not
\* run again).
StrayWorkItemWritesNothing ==
  [][\A w \in Workers :
       proc'[w] # proc[w] =>
         LET event == proc'[w].event
             id == event.transactionId
         IN /\ (proc[w].pc = "idle" /\ (id = 0 \/ event.userId = NoUser)) =>
                 (db' = db /\ proc'[w].pc = "idle" /\ proc'[w].outcome = "invalid")
            /\ (proc[w].pc = "find"
                  /\ (id \notin DOMAIN db.txs \/ db.txs[id].userId # event.userId)) =>
                 (db' = db /\ proc'[w].pc = "idle" /\ proc'[w].outcome = "skipped")]_vars

\* C30 witness: the work item of a transaction that was bulk-deleted after discovery
\* was taken and skipped, with the store holding no transaction.
DeletedOriginalSkipped ==
  /\ proc["w1"].outcome = "skipped"
  /\ proc["w1"].event = [transactionId |-> 1, userId |-> "u1"]
  /\ db.txSeq = 1
  /\ DOMAIN db.txs = {}

====
